---- MODULE Spec2Model ----
(***************************************************************************)
(* A model of the ip-tracker server in its two source variants:            *)
(*   "file"   - the file-backed server (src/unnamed/part_000): JSON-lines  *)
(*              log, server-side geolocation with cache, sessions,         *)
(*              socket.io fan-out;                                         *)
(*   "sqlite" - the SQLite-backed server (src/server.js).                  *)
(* and of the admin console script (src/unnamed/part_001).                 *)
(*                                                                         *)
(* Strings are sequences of tokens (one token is one character, or one     *)
(* literal chunk such as "::ffff:" that the code treats as a unit).        *)
(***************************************************************************)
EXTENDS Integers, Sequences, FiniteSets, TLC

VARIABLES variant, ANONYMIZE, IPINFO_TOKEN, now, sessions, conn, admins, joinLog, logFile, db, appends, inflight, GEO_CACHE, limiter, resp, emitted, lastTrack, lastErr, rowsEl

vars == <<variant, ANONYMIZE, IPINFO_TOKEN, now, sessions, conn, admins, joinLog, logFile, db, appends, inflight, GEO_CACHE, limiter, resp, emitted, lastTrack, lastErr, rowsEl>>

(***************************************************************************)
(* Bounds of the model.                                                    *)
(***************************************************************************)
\* longest log (chunks) / table (rows) the query specification draws
MaxLines == 2
\* most /track requests the ingestion specification sends
MaxReqs == 2
\* browser sessions and realtime connections
NSessions == 1
NSockets == 1

Min(a, b) == IF a < b THEN a ELSE b
Max(a, b) == IF a > b THEN a ELSE b

(***************************************************************************)
(* Strings.                                                                *)
(***************************************************************************)
EmptyStr == <<>>

\* String.prototype.toLowerCase, on the model's alphabet
LowerTok(c) == IF c = "A" THEN "a" ELSE IF c = "B" THEN "b" ELSE c
toLowerCase(s) == [i \in 1..Len(s) |-> LowerTok(s[i])]

\* String.prototype.includes
includes(s, t) == \E i \in 0..(Len(s) - Len(t)) : SubSeq(s, i + 1, i + Len(t)) = t

\* Array.prototype.join(' ') of a sequence of strings
RECURSIVE joinSp(_)
joinSp(ss) == IF ss = <<>> THEN <<>> ELSE IF Len(ss) = 1 THEN ss[1] ELSE ss[1] \o <<" ">> \o joinSp(Tail(ss))

\* a || b on strings: the empty string is falsy
Or(a, b) == IF a # EmptyStr THEN a ELSE b

(***************************************************************************)
(* Numbers of JavaScript that may be NaN.                                  *)
(***************************************************************************)
NaN == [nan |-> TRUE, n |-> 0]
Num(k) == [nan |-> FALSE, n |-> k]

\* a query-string parameter: absent, a string that parseInt reads as n, or
\* a string that is no number
Absent == [kind |-> "absent", n |-> 0]
IntParam(k) == [kind |-> "int", n |-> k]
TextParam == [kind |-> "text", n |-> 0]

\* parseInt(p || dflt, 10)
parseInt10(p, dflt) == IF p.kind = "absent" THEN Num(dflt) ELSE IF p.kind = "int" THEN Num(p.n) ELSE NaN

\* Math.min(x, k)
MathMin(x, k) == IF x.nan THEN NaN ELSE Num(Min(x.n, k))

\* x || 0 on numbers
OrZero(x) == IF x.nan THEN 0 ELSE x.n

\* Array.prototype.slice(start, end): start is an integer, end may be NaN
RelIdx(x, len) == IF x < 0 THEN Max(len + x, 0) ELSE Min(x, len)
slice(s, start, end) == SubSeq(s, RelIdx(start, Len(s)) + 1, IF end.nan THEN 0 ELSE RelIdx(end.n, Len(s)))

(***************************************************************************)
(* Visit records.                                                          *)
(***************************************************************************)
\* geo: null
NoGeo == [present |-> FALSE, city |-> EmptyStr, region |-> EmptyStr, country |-> EmptyStr]
GeoOf(city, region, country) == [present |-> TRUE, city |-> city, region |-> region, country |-> country]

\* const visit = { ip, ua, path: pathHit, referer, ts, geo }
Visit(ip, ua, path, referer, ts, geo) == [ip |-> ip, ua |-> ua, path |-> path, referer |-> referer, ts |-> ts, geo |-> geo]

(***************************************************************************)
(* The log file of the file variant.  Its text is a sequence of chunks,    *)
(* one per fs.appendFile that wrote anything: "full" is the whole          *)
(* JSON.stringify(v) + '\n'; "nonl" is the JSON text cut just before the   *)
(* line feed and "part" a shorter prefix of it (an append the process did  *)
(* not finish).                                                            *)
(***************************************************************************)
\* n is the number of the writeVisit call the chunk comes from
Chunk(v, cut, n) == [v |-> v, cut |-> cut, n |-> n]

\* const line = JSON.stringify(v) + '\n'
stringifyLine(v, n) == Chunk(v, "full", n)

\* text.split('\n').filter(Boolean): the chunks up to and including a "full"
\* one are one line; chunks after the last line feed are the last line.
\* (The text is split in halves, and the line that runs across the middle
\* is put together again: a log of thousands of lines is split in a few
\* levels.)
RECURSIVE splitLines(_)
splitLines(text) == IF Len(text) <= 1 THEN (IF text = <<>> THEN <<>> ELSE <<text>>) ELSE LET h == Len(text) \div 2 L == splitLines(SubSeq(text, 1, h)) R == splitLines(SubSeq(text, h + 1, Len(text))) IN IF text[h].cut = "full" THEN L \o R ELSE SubSeq(L, 1, Len(L) - 1) \o <<L[Len(L)] \o R[1]>> \o Tail(R)

\* a JSON.parse that takes the first record of any line
parses_any(l) == Len(l) >= 1

\* JSON.parse(l) succeeds exactly on one whole JSON text
parses(l) == Len(l) = 1 /\ l[1].cut \in {"full", "nonl"}
JSONparse(l) == l[1].v

\* lines.map(l => { try { return JSON.parse(l) } catch { return null } }).filter(Boolean)
RECURSIVE parseLines(_)
parseLines(ls) == IF Len(ls) <= 1 THEN (IF ls # <<>> /\ parses(Head(ls)) THEN <<JSONparse(Head(ls))>> ELSE <<>>) ELSE LET h == Len(ls) \div 2 IN parseLines(SubSeq(ls, 1, h)) \o parseLines(SubSeq(ls, h + 1, Len(ls)))

\* Array.prototype.reverse
reverse(s) == [i \in 1..Len(s) |-> s[Len(s) + 1 - i]]

\* Array.prototype.filter with the predicate given as the set of kept values
RECURSIVE filterSeq(_, _)
filterSeq(s, keep) == IF s = <<>> THEN <<>> ELSE (IF Head(s) \in keep THEN <<Head(s)>> ELSE <<>>) \o filterSeq(Tail(s), keep)

\* the blob a term is searched in
blobOf(v) == toLowerCase(joinSp(<<v.ip, v.path, v.ua, v.referer, v.geo.city, v.geo.region, v.geo.country>>))

\* v => !blob.includes(term)
matchesTerm_not(v, term) == ~includes(blobOf(v), term)

\* v => blob.includes(term)
matchesTerm(v, term) == includes(blobOf(v), term)

\* readVisits with the slice taken before the filter
readVisits_sliceFirst(text, q, limit, offset) == LET term == toLowerCase(q) data == slice(reverse(parseLines(splitLines(text))), offset, IF limit.nan THEN NaN ELSE Num(offset + limit.n)) IN IF term # EmptyStr THEN filterSeq(data, {v \in {data[i] : i \in 1..Len(data)} : matchesTerm(v, term)}) ELSE data

\* function readVisits(q = '', limit = 500, offset = 0): limit may be NaN
readVisits(text, q, limit, offset) == LET term == toLowerCase(q) data == reverse(parseLines(splitLines(text))) filtered == IF term # EmptyStr THEN filterSeq(data, {v \in {data[i] : i \in 1..Len(data)} : matchesTerm(v, term)}) ELSE data IN slice(filtered, offset, IF limit.nan THEN NaN ELSE Num(offset + limit.n))

(***************************************************************************)
(* The visits table of the sqlite variant: rows in rowid order.            *)
(***************************************************************************)
\* a NULL column
NullCol == <<"NULL">>
OrNull(a) == IF a # EmptyStr THEN a ELSE NullCol

Row(id, ip, ua, path, referer, ts) == [id |-> id, ip |-> ip, ua |-> ua, path |-> path, referer |-> referer, ts |-> ts]

\* X LIKE pattern: % is any run of characters, _ any one character, letters
\* compare without case; there is no ESCAPE
RECURSIVE likePat(_, _)
likePat(p, s) == IF p = <<>> THEN s = <<>> ELSE IF Head(p) = "%" THEN likePat(Tail(p), s) \/ (s # <<>> /\ likePat(p, Tail(s))) ELSE s # <<>> /\ (Head(p) = "_" \/ LowerTok(Head(p)) = LowerTok(Head(s))) /\ likePat(Tail(p), Tail(s))
like(col, pat) == col # NullCol /\ likePat(pat, col)

\* (ip LIKE ? OR ua LIKE ? OR path LIKE ? OR referer LIKE ?) with term = `%${q}%`
whereClause(r, q) == LET term == <<"%">> \o q \o <<"%">> IN like(r.ip, term) \/ like(r.ua, term) \/ like(r.path, term) \/ like(r.referer, term)

\* the rows the WHERE clause keeps (all of them when q is empty), in rowid order
sqlWhere(table, q) == IF q # EmptyStr THEN filterSeq(table, {r \in {table[i] : i \in 1..Len(table)} : whereClause(r, q)}) ELSE table

\* ORDER BY ts DESC: every order of the rows with ts non-increasing; SQL leaves
\* the order of rows with equal ts open
orderByTsDesc(rows) == LET n == Len(rows) IN {[i \in 1..n |-> rows[p[i]]] : p \in {f \in [1..n -> 1..n] : (\A i, j \in 1..n : i # j => f[i] # f[j]) /\ (\A i, j \in 1..n : i < j => rows[f[i]].ts >= rows[f[j]].ts)}}

\* LIMIT ? OFFSET ?: a negative limit is no limit, a negative offset is 0
limitOffset(rows, limit, offset) == LET off == Max(offset, 0) IN SubSeq(rows, off + 1, IF limit < 0 THEN Len(rows) ELSE Min(off + limit, Len(rows)))

(***************************************************************************)
(* Requests.  A /track request is                                          *)
(*   [xff, ip, uaH, refH, bUa, bPath, bUrl, bReferer]:                     *)
(* the x-forwarded-for, user-agent and referer headers, req.ip, and the    *)
(* ua, path, url and referer fields of the body; an absent header or       *)
(* field is the empty string (both are falsy).                             *)
(***************************************************************************)
Req(xff, ip, uaH, refH, bUa, bPath, bUrl, bReferer) == [xff |-> xff, ip |-> ip, uaH |-> uaH, refH |-> refH, bUa |-> bUa, bPath |-> bPath, bUrl |-> bUrl, bReferer |-> bReferer]

\* xf.split(',')[0]
RECURSIVE splitComma0(_)
splitComma0(s) == IF s = <<>> \/ Head(s) = "," THEN <<>> ELSE <<Head(s)>> \o splitComma0(Tail(s))

\* String.prototype.trim
RECURSIVE trimStart(_)
trimStart(s) == IF s # <<>> /\ Head(s) = " " THEN trimStart(Tail(s)) ELSE s
trim(s) == reverse(trimStart(reverse(trimStart(s))))

\* function getClientIp(req), file variant: req.ip || remoteAddress || ''
getClientIp(req) == IF req.xff # EmptyStr THEN trim(splitComma0(req.xff)) ELSE Or(req.ip, EmptyStr)

\* function getClientIp(req), sqlite variant: ... || 'unknown'
getClientIpSql(req) == IF req.xff # EmptyStr THEN trim(splitComma0(req.xff)) ELSE Or(req.ip, <<"unknown">>)

\* the fixed placeholder
ANON == <<"[anon]">>

\* const ip = ANONYMIZE ? '[anon]' : ipRaw
visitIp_raw(ipRaw) == ipRaw
visitIp(ipRaw) == IF ANONYMIZE THEN ANON ELSE ipRaw

\* the text of a string as one token
RECURSIVE flat(_)
flat(s) == IF s = <<>> THEN "" ELSE Head(s) \o flat(Tail(s))

\* bcrypt.hash(ip, SALT_ROUNDS) with the salt it drew: one opaque token
bcryptHash(ip, salt) == <<"$2b$10$" \o salt \o "$" \o flat(ip)>>
Salts == {"s1", "s2"}

\* ip: ANONYMIZE ? '[anon]' : ip  (the payload the sqlite variant emits)
emitIp_raw(ip) == ip
emitIp(ip) == IF ANONYMIZE THEN ANON ELSE ip

\* const ua = ...; const pathHit = ...; const referer = ...  (file variant)
uaOf(req) == Or(req.uaH, Or(req.bUa, EmptyStr))
pathOf(req) == Or(req.bPath, Or(req.bUrl, Or(req.refH, EmptyStr)))
refererOf(req) == Or(req.refH, EmptyStr)

\* the same three in the sqlite variant, null when all are missing
uaOfSql(req) == OrNull(Or(req.uaH, req.bUa))
pathOfSql(req) == OrNull(Or(req.bPath, Or(req.refH, req.bUrl)))
refererOfSql(req) == OrNull(Or(req.refH, req.bReferer))

\* const ts = Math.floor(Date.now() / 1000)
tsNow == now \div 1000

(***************************************************************************)
(* The rate limiter of /track (express-rate-limit, keyed by req.ip).       *)
(***************************************************************************)
windowMs == 60000
RATE_MAX == 120
\* how far past the limit the model lets a key's counter run
MaxOver == 2

\* the window a key's hit lands in: a new one when the key has none running
hitOf(key) == IF limiter[key].hits = 0 \/ now >= limiter[key].reset THEN [hits |-> 1, reset |-> now + windowMs] ELSE [hits |-> limiter[key].hits + 1, reset |-> limiter[key].reset]

\* the limiter lets the request through
underLimit_off(key) == TRUE
underLimit(key) == hitOf(key).hits <= RATE_MAX

(***************************************************************************)
(* Observables: the last HTTP response, the last 'visit' event emitted,    *)
(* the last /track answered and the last writeVisit error logged.          *)
(***************************************************************************)
NoVisit == Visit(EmptyStr, EmptyStr, EmptyStr, EmptyStr, 0, NoGeo)
\* authed is the request's session flag as it arrived; flag is the authed
\* field of the body /api/session answers
Resp(route, sid, status, rows, q, limit, offset, authed, flag) == [route |-> route, sid |-> sid, status |-> status, rows |-> rows, q |-> q, limit |-> limit, offset |-> offset, authed |-> authed, flag |-> flag]
NoResp == Resp("none", 0, 0, <<>>, EmptyStr, Absent, Absent, FALSE, FALSE)
PlainResp(route, sid, status, authed) == Resp(route, sid, status, <<>>, EmptyStr, Absent, Absent, authed, FALSE)
\* the answer to a /track: q holds req.ip, the limiter key of the request
TrackResp(key, status) == Resp("track", 0, status, <<>>, key, Absent, Absent, FALSE, FALSE)
NoEmit == [any |-> FALSE, visit |-> NoVisit, to |-> {}, n |-> 0]
NoTrack == [any |-> FALSE, visit |-> NoVisit, status |-> 0, n |-> 0]

(***************************************************************************)
(* Sessions and the realtime hub.                                          *)
(***************************************************************************)
SessionIds == 1..NSessions
Sockets == 1..NSockets
ADMIN_PASS == "4750"
Passwords == {ADMIN_PASS, "guess", ""}

\* req.session && req.session.authed, for the request of browser session sid
\* (sid 0: a request without a session cookie)
sessionAuthed(sid) == sid \in SessionIds /\ sessions[sid]

\* function requireAuth(req, res, next): next() is called
requireAuth_open(sid) == TRUE
requireAuth(sid) == sid \in SessionIds /\ sessions[sid]

\* a /login that destroys the session when the password is wrong
LoginFile_clears(sid, password) ==
    /\ variant = "file"
    /\ sessions' = [sessions EXCEPT ![sid] = (password = ADMIN_PASS)]
    /\ resp' = PlainResp("login", sid, IF password = ADMIN_PASS THEN 302 ELSE 401, sessions[sid])
    /\ UNCHANGED <<rowsEl, variant, ANONYMIZE, IPINFO_TOKEN, now, conn, admins, joinLog, logFile, db, appends, inflight, GEO_CACHE, limiter, emitted, lastTrack, lastErr>>

\* app.post('/login'), file variant: regenerate, authed = true, save, redirect
LoginFile(sid, password) ==
    /\ variant = "file"
    /\ IF password # ADMIN_PASS
       THEN /\ resp' = PlainResp("login", sid, 401, sessions[sid])
            /\ UNCHANGED sessions
       ELSE /\ sessions' = [sessions EXCEPT ![sid] = TRUE]
            /\ resp' = PlainResp("login", sid, 302, sessions[sid])
    /\ UNCHANGED <<rowsEl, variant, ANONYMIZE, IPINFO_TOKEN, now, conn, admins, joinLog, logFile, db, appends, inflight, GEO_CACHE, limiter, emitted, lastTrack, lastErr>>

\* app.post('/login'), sqlite variant
LoginSql(sid, password) ==
    /\ variant = "sqlite"
    /\ IF password = ADMIN_PASS
       THEN /\ sessions' = [sessions EXCEPT ![sid] = TRUE]
            /\ resp' = PlainResp("login", sid, 302, sessions[sid])
       ELSE /\ resp' = PlainResp("login", sid, 401, sessions[sid])
            /\ UNCHANGED sessions
    /\ UNCHANGED <<rowsEl, variant, ANONYMIZE, IPINFO_TOKEN, now, conn, admins, joinLog, logFile, db, appends, inflight, GEO_CACHE, limiter, emitted, lastTrack, lastErr>>

\* app.post('/logout'): req.session.destroy(() => res.redirect('/'))
Logout(sid) ==
    /\ sessions' = [sessions EXCEPT ![sid] = FALSE]
    /\ resp' = PlainResp("logout", sid, 302, sessions[sid])
    /\ UNCHANGED <<rowsEl, variant, ANONYMIZE, IPINFO_TOKEN, now, conn, admins, joinLog, logFile, db, appends, inflight, GEO_CACHE, limiter, emitted, lastTrack, lastErr>>

\* app.get('/api/session')
SessionCheck(sid) ==
    /\ resp' = Resp("session", sid, 200, <<>>, EmptyStr, Absent, Absent, sid \in SessionIds /\ sessions[sid], sessionAuthed(sid))
    /\ UNCHANGED <<rowsEl, variant, ANONYMIZE, IPINFO_TOKEN, now, sessions, conn, admins, joinLog, logFile, db, appends, inflight, GEO_CACHE, limiter, emitted, lastTrack, lastErr>>

\* a client opens a realtime connection; its handshake carries the cookie of
\* browser session sid (0: none).  io.use((socket, next) => next())
Connect(c, sid) ==
    /\ conn[c] = -1
    /\ conn' = [conn EXCEPT ![c] = sid]
    /\ UNCHANGED <<rowsEl, variant, ANONYMIZE, IPINFO_TOKEN, now, sessions, admins, joinLog, logFile, db, appends, inflight, GEO_CACHE, limiter, resp, emitted, lastTrack, lastErr>>

\* the connection closes; socket.io takes it out of its rooms
Disconnect(c) ==
    /\ conn[c] # -1
    /\ conn' = [conn EXCEPT ![c] = -1]
    /\ admins' = admins \ {c}
    /\ joinLog' = [joinLog EXCEPT ![c] = "none"]
    /\ UNCHANGED <<rowsEl, variant, ANONYMIZE, IPINFO_TOKEN, now, sessions, logFile, db, appends, inflight, GEO_CACHE, limiter, resp, emitted, lastTrack, lastErr>>

\* the sockets in room 'admins' after socket c asks to join
joinRoom(c) == admins \cup {c}

\* socket.on('join-admin', () => socket.join('admins')); joinLog records
\* whether the connection's session was authenticated when it asked
JoinAdmin(c) ==
    /\ conn[c] # -1
    /\ admins' = joinRoom(c)
    /\ joinLog' = [joinLog EXCEPT ![c] = IF conn[c] \in SessionIds /\ sessions[conn[c]] THEN "authed" ELSE "unauthed"]
    /\ UNCHANGED <<rowsEl, variant, ANONYMIZE, IPINFO_TOKEN, now, sessions, conn, logFile, db, appends, inflight, GEO_CACHE, limiter, resp, emitted, lastTrack, lastErr>>

\* time passes
Tick(d) ==
    /\ now' = now + d
    /\ UNCHANGED <<rowsEl, variant, ANONYMIZE, IPINFO_TOKEN, sessions, conn, admins, joinLog, logFile, db, appends, inflight, GEO_CACHE, limiter, resp, emitted, lastTrack, lastErr>>

(***************************************************************************)
(* Geo lookup (file variant).                                              *)
(***************************************************************************)
\* 6 * 60 * 60 * 1000
GEO_TTL == 21600000

\* String(ipRaw).replace(/^::ffff:/, '')
stripMapped(ipRaw) == IF ipRaw # <<>> /\ Head(ipRaw) = "::ffff:" THEN Tail(ipRaw) ELSE ipRaw

\* the same with <= in the place of <
geoGet_le(ip) == IF ip \in DOMAIN GEO_CACHE /\ now - GEO_CACHE[ip].ts <= GEO_TTL THEN GEO_CACHE[ip].data ELSE NoGeo

\* function geoGet(ip): the cached data, or null (present = FALSE)
geoGet(ip) == IF ip \in DOMAIN GEO_CACHE /\ now - GEO_CACHE[ip].ts < GEO_TTL THEN GEO_CACHE[ip].data ELSE NoGeo

\* function geoPut(ip, data)
geoPut(ip, data) == [k \in DOMAIN GEO_CACHE \cup {ip} |-> IF k = ip THEN [data |-> data, ts |-> now] ELSE GEO_CACHE[k]]

\* geolocateIp(ipRaw) goes as far as fetch(): there is a token, an address
\* that is not a loopback one, and no live cache entry
geoFetches(ipRaw) == IPINFO_TOKEN /\ ipRaw # EmptyStr /\ stripMapped(ipRaw) \notin {<<"127.0.0.1">>, <<"::1">>} /\ ~geoGet(stripMapped(ipRaw)).present

\* what geolocateIp(ipRaw) returns when it does not fetch
geoNoFetch(ipRaw) == IF ~IPINFO_TOKEN \/ ipRaw = EmptyStr \/ stripMapped(ipRaw) \in {<<"127.0.0.1">>, <<"::1">>} THEN NoGeo ELSE geoGet(stripMapped(ipRaw))

\* what ipinfo.io may answer: a network error, a non-success status, a body
\* that is no JSON, or JSON j with city, region and country (each may be
\* missing, the empty string here)
GeoAnswer(kind, city, region, country) == [kind |-> kind, city |-> city, region |-> region, country |-> country]

\* the same without `if (!r.ok) return null` and without the catch
geoOut_blank(ans) == GeoOf(Or(ans.city, EmptyStr), Or(ans.region, EmptyStr), Or(ans.country, EmptyStr))

\* the geo geolocateIp returns on the answer: out, or null
geoOut(ans) == IF ans.kind = "ok" THEN GeoOf(Or(ans.city, EmptyStr), Or(ans.region, EmptyStr), Or(ans.country, EmptyStr)) ELSE NoGeo

(***************************************************************************)
(* /track, file variant.                                                   *)
(***************************************************************************)
\* the number of writeVisit calls (rows inserted, in the sqlite variant) so far
issued == lastTrack.n


\* writeVisit(visit); io.to('admins').emit('visit', visit); res.json({ ok: true })
\* fs.appendFile is only started here: it completes in AppendDone or AppendFail
finishFile(v, key) ==
    /\ appends' = Append(appends, [v |-> v, n |-> issued + 1, answered |-> 200])
    /\ emitted' = [any |-> TRUE, visit |-> v, to |-> admins, n |-> issued + 1]
    /\ resp' = TrackResp(key, 200)
    /\ lastTrack' = [any |-> TRUE, visit |-> v, status |-> 200, n |-> issued + 1]

\* app.post('/track', trackLimiter, async (req, res) => ...) up to the end, or
\* up to the await of a geo lookup that fetches
TrackFile(req) ==
    /\ variant = "file"
    /\ underLimit(req.ip)
    /\ limiter' = [limiter EXCEPT ![req.ip] = hitOf(req.ip)]
    /\ LET ipRaw == getClientIp(req)
           ip == visitIp(ipRaw)
       IN IF ~ANONYMIZE /\ geoFetches(ipRaw)
          THEN /\ inflight' = Append(inflight, [kind |-> "geo", key |-> req.ip, ipRaw |-> ipRaw, ip |-> ip, ua |-> uaOf(req), path |-> pathOf(req), referer |-> refererOf(req), ts |-> tsNow])
               /\ UNCHANGED <<appends, emitted, resp, lastTrack>>
          ELSE /\ finishFile(Visit(ip, uaOf(req), pathOf(req), refererOf(req), tsNow, IF ANONYMIZE THEN NoGeo ELSE geoNoFetch(ipRaw)), req.ip)
               /\ UNCHANGED inflight
    /\ UNCHANGED <<rowsEl, variant, ANONYMIZE, IPINFO_TOKEN, now, sessions, conn, admins, joinLog, logFile, db, GEO_CACHE, lastErr>>

\* the request is over the limit: the limiter answers 429 and the handler
\* does not run
TrackReject(req) ==
    /\ ~underLimit(req.ip)
    /\ hitOf(req.ip).hits <= RATE_MAX + MaxOver
    /\ limiter' = [limiter EXCEPT ![req.ip] = hitOf(req.ip)]
    /\ resp' = TrackResp(req.ip, 429)
    /\ UNCHANGED <<rowsEl, variant, ANONYMIZE, IPINFO_TOKEN, now, sessions, conn, admins, joinLog, logFile, db, appends, inflight, GEO_CACHE, emitted, lastTrack, lastErr>>

\* the i-th element of a sequence removed
removeAt(s, i) == SubSeq(s, 1, i - 1) \o SubSeq(s, i + 1, Len(s))

\* the fetch of the i-th suspended /track is answered: the rest of
\* geolocateIp, then the rest of the handler
GeoReply(i, ans) ==
    /\ i \in 1..Len(inflight)
    /\ inflight[i].kind = "geo"
    /\ LET f == inflight[i]
           geo == geoOut(ans)
       IN /\ GEO_CACHE' = IF geo.present THEN geoPut(stripMapped(f.ipRaw), geo) ELSE GEO_CACHE
          /\ finishFile(Visit(f.ip, f.ua, f.path, f.referer, f.ts, geo), f.key)
    /\ inflight' = removeAt(inflight, i)
    /\ UNCHANGED <<rowsEl, variant, ANONYMIZE, IPINFO_TOKEN, now, sessions, conn, admins, joinLog, logFile, db, limiter, lastErr>>

\* which of the started fs.appendFile operations may complete next: they run
\* on the thread pool, and nothing orders one against another
mayComplete_fifo(i) == i = 1
mayComplete(i) == i \in 1..Len(appends)

\* fs.writeFile in the place of fs.appendFile: the file is the line
appendFile_write(text, line) == <<line>>

\* the text of the file after fs.appendFile(LOG_FILE, line, ...) completed
appendFile(text, line) == Append(text, line)

\* an fs.appendFile completes: the line is in the file ('writeVisit ok')
AppendDone(i) ==
    /\ i \in 1..Len(appends)
    /\ mayComplete(i)
    /\ logFile' = appendFile(logFile, stringifyLine(appends[i].v, appends[i].n))
    /\ appends' = removeAt(appends, i)
    /\ UNCHANGED <<rowsEl, variant, ANONYMIZE, IPINFO_TOKEN, now, sessions, conn, admins, joinLog, db, inflight, GEO_CACHE, limiter, resp, emitted, lastTrack, lastErr>>

\* an fs.appendFile fails: the callback logs 'writeVisit error' and no more
AppendFail(i) ==
    /\ i \in 1..Len(appends)
    /\ mayComplete(i)
    /\ lastErr' = [any |-> TRUE, visit |-> appends[i].v, status |-> appends[i].answered, n |-> appends[i].n]
    /\ appends' = removeAt(appends, i)
    /\ UNCHANGED <<rowsEl, variant, ANONYMIZE, IPINFO_TOKEN, now, sessions, conn, admins, joinLog, logFile, db, inflight, GEO_CACHE, limiter, resp, emitted, lastTrack>>

(***************************************************************************)
(* /track, sqlite variant.                                                 *)
(***************************************************************************)
\* insertStmt.run(ip, ua, path, referer, ts), the emit and the answer; when
\* the insert throws, the catch answers 500 { ok: false }
finishSql(ip, ua, path, referer, insertOk, key) ==
    IF insertOk
    THEN /\ db' = Append(db, Row(Len(db) + 1, ip, ua, path, referer, tsNow))
         /\ emitted' = [any |-> TRUE, visit |-> Visit(emitIp(ip), ua, path, referer, tsNow, NoGeo), to |-> admins, n |-> issued + 1]
         /\ resp' = TrackResp(key, 200)
         /\ lastTrack' = [any |-> TRUE, visit |-> Visit(ip, ua, path, referer, tsNow, NoGeo), status |-> 200, n |-> issued + 1]
    ELSE /\ resp' = TrackResp(key, 500)
         /\ UNCHANGED <<db, emitted, lastTrack>>

\* app.post('/track', trackLimiter, async (req, res) => ...) up to the end, or
\* up to the await of bcrypt.hash when ANONYMIZE is set
TrackSql(req, insertOk) ==
    /\ variant = "sqlite"
    /\ underLimit(req.ip)
    /\ limiter' = [limiter EXCEPT ![req.ip] = hitOf(req.ip)]
    /\ LET ipRaw == getClientIpSql(req)
       IN IF ANONYMIZE
          THEN /\ inflight' = Append(inflight, [kind |-> "hash", key |-> req.ip, ipRaw |-> ipRaw, ip |-> ipRaw, ua |-> uaOfSql(req), path |-> pathOfSql(req), referer |-> refererOfSql(req), ts |-> 0])
               /\ UNCHANGED <<db, emitted, resp, lastTrack>>
          ELSE /\ finishSql(ipRaw, uaOfSql(req), pathOfSql(req), refererOfSql(req), insertOk, req.ip)
               /\ UNCHANGED inflight
    /\ UNCHANGED <<rowsEl, variant, ANONYMIZE, IPINFO_TOKEN, now, sessions, conn, admins, joinLog, logFile, appends, GEO_CACHE, lastErr>>

\* async function processIp(ip), ANONYMIZE set: the stored ip
processIp_plain(ipRaw, salt) == ipRaw
processIp(ipRaw, salt) == bcryptHash(ipRaw, salt)

\* bcrypt.hash of the i-th suspended /track resolves: the rest of the handler
HashDone(i, salt, insertOk) ==
    /\ i \in 1..Len(inflight)
    /\ inflight[i].kind = "hash"
    /\ LET f == inflight[i]
       IN finishSql(processIp(f.ipRaw, salt), f.ua, f.path, f.referer, insertOk, f.key)
    /\ inflight' = removeAt(inflight, i)
    /\ UNCHANGED <<rowsEl, variant, ANONYMIZE, IPINFO_TOKEN, now, sessions, conn, admins, joinLog, logFile, appends, GEO_CACHE, limiter, lastErr>>

(***************************************************************************)
(* The protected read routes.                                              *)
(***************************************************************************)
LIMIT_DEFAULT == 200
LIMIT_CAP == 2000
HITS_LIMIT == 100
EXPORT_LIMIT == 10000

\* const limit = Math.min(parseInt(req.query.limit || '200', 10), 2000)
limitOf(limitP) == MathMin(parseInt10(limitP, LIMIT_DEFAULT), LIMIT_CAP)

\* const offset = parseInt(req.query.offset || '0', 10) || 0
offsetOf(offsetP) == OrZero(parseInt10(offsetP, 0))

\* app.get('/api/search', requireAuth, ...), file variant
SearchFile(sid, q, limitP, offsetP) ==
    /\ variant = "file"
    /\ resp' = IF requireAuth(sid)
               THEN Resp("search", sid, 200, readVisits(logFile, q, limitOf(limitP), offsetOf(offsetP)), q, limitP, offsetP, sid \in SessionIds /\ sessions[sid], FALSE)
               ELSE Resp("search", sid, 401, <<>>, q, limitP, offsetP, sid \in SessionIds /\ sessions[sid], FALSE)
    /\ UNCHANGED <<rowsEl, variant, ANONYMIZE, IPINFO_TOKEN, now, sessions, conn, admins, joinLog, logFile, db, appends, inflight, GEO_CACHE, limiter, emitted, lastTrack, lastErr>>

\* app.get('/api/hits', requireAuth, ...): readVisits('', 100, 0)
Hits(sid) ==
    /\ variant = "file"
    /\ resp' = IF requireAuth(sid)
               THEN Resp("hits", sid, 200, readVisits(logFile, EmptyStr, Num(HITS_LIMIT), 0), EmptyStr, Absent, Absent, sid \in SessionIds /\ sessions[sid], FALSE)
               ELSE Resp("hits", sid, 401, <<>>, EmptyStr, Absent, Absent, sid \in SessionIds /\ sessions[sid], FALSE)
    /\ UNCHANGED <<rowsEl, variant, ANONYMIZE, IPINFO_TOKEN, now, sessions, conn, admins, joinLog, logFile, db, appends, inflight, GEO_CACHE, limiter, emitted, lastTrack, lastErr>>

\* the results db.prepare(sql).all(...params) may give for /api/search: a NaN
\* limit cannot be bound to LIMIT ? (the statement throws: no result)
searchSqlResults(q, limit, offset) == IF limit.nan THEN {} ELSE {limitOffset(o, limit.n, offset) : o \in orderByTsDesc(sqlWhere(db, q))}

\* app.get('/api/search', requireAuth, ...), sqlite variant; a throw in the
\* handler is answered 500 by express
SearchSql(sid, q, limitP, offsetP) ==
    /\ variant = "sqlite"
    /\ IF requireAuth(sid)
       THEN IF searchSqlResults(q, limitOf(limitP), offsetOf(offsetP)) = {}
            THEN resp' = Resp("search", sid, 500, <<>>, q, limitP, offsetP, sid \in SessionIds /\ sessions[sid], FALSE)
            ELSE \E rows \in searchSqlResults(q, limitOf(limitP), offsetOf(offsetP)) : resp' = Resp("search", sid, 200, rows, q, limitP, offsetP, sid \in SessionIds /\ sessions[sid], FALSE)
       ELSE resp' = Resp("search", sid, 401, <<>>, q, limitP, offsetP, sid \in SessionIds /\ sessions[sid], FALSE)
    /\ UNCHANGED <<rowsEl, variant, ANONYMIZE, IPINFO_TOKEN, now, sessions, conn, admins, joinLog, logFile, db, appends, inflight, GEO_CACHE, limiter, emitted, lastTrack, lastErr>>

\* app.get('/api/export', requireAuth, ...): ORDER BY ts DESC LIMIT 10000
Export(sid) ==
    /\ variant = "sqlite"
    /\ IF requireAuth(sid)
       THEN \E o \in orderByTsDesc(db) : resp' = Resp("export", sid, 200, limitOffset(o, EXPORT_LIMIT, 0), EmptyStr, Absent, Absent, sid \in SessionIds /\ sessions[sid], FALSE)
       ELSE resp' = Resp("export", sid, 401, <<>>, EmptyStr, Absent, Absent, sid \in SessionIds /\ sessions[sid], FALSE)
    /\ UNCHANGED <<rowsEl, variant, ANONYMIZE, IPINFO_TOKEN, now, sessions, conn, admins, joinLog, logFile, db, appends, inflight, GEO_CACHE, limiter, emitted, lastTrack, lastErr>>

(***************************************************************************)
(* Inputs of the model.                                                    *)
(***************************************************************************)
\* Date.now() when the server starts, the step of the clock, and how many
\* steps the clock takes
START == 1500
TickMs == 500
MaxTicks == 1

\* /track requests: through a proxy (client 7, proxy 9) with a path; direct
\* from 9 with a url, a referer and the ua in the body
ReqProxied == Req(<<"7", ",", " ", "9">>, <<"9">>, <<"A", "b">>, EmptyStr, EmptyStr, <<"/", "a">>, EmptyStr, EmptyStr)
ReqDirect == Req(EmptyStr, <<"9">>, EmptyStr, <<"b">>, <<"a">>, EmptyStr, <<"/", "b">>, EmptyStr)
TrackReqs == {ReqProxied, ReqDirect}

\* the raw client addresses of those requests
RawIps == {getClientIp(r) : r \in TrackReqs} \cup {getClientIpSql(r) : r \in TrackReqs}

\* req.ip of the requests the model sends: the limiter's keys
LimiterKeys == {<<"9">>, <<"8">>}

\* answers of the geo service
\* the lookups that fail: fetch rejects (a network error), r.ok is false, or
\* r.json() throws on the body
GeoFailures == {GeoAnswer(k, EmptyStr, EmptyStr, EmptyStr) : k \in {"neterr", "status", "badjson"}}
GeoAnswers == GeoFailures \cup {GeoAnswer("ok", <<"a">>, EmptyStr, <<"B">>)}

(***************************************************************************)
(* The state after construction.                                           *)
(***************************************************************************)
InitServer ==
    /\ now = START
    /\ sessions = [s \in SessionIds |-> FALSE]
    /\ conn = [c \in Sockets |-> -1]
    /\ admins = {}
    /\ joinLog = [c \in Sockets |-> "none"]
    /\ logFile = <<>>
    /\ db = <<>>
    /\ appends = <<>>
    /\ inflight = <<>>
    /\ GEO_CACHE = <<>>
    /\ limiter = [k \in LimiterKeys |-> [hits |-> 0, reset |-> 0]]
    /\ resp = NoResp
    /\ emitted = NoEmit
    /\ lastTrack = NoTrack
    /\ lastErr = NoTrack
    /\ rowsEl = <<>>

\* the configuration: which server runs, ANONYMIZE_IPS, IPINFO_TOKEN (the
\* sqlite variant reads no token)
InitConfig ==
    /\ variant \in {"file", "sqlite"}
    /\ ANONYMIZE \in BOOLEAN
    /\ IPINFO_TOKEN \in (IF variant = "file" THEN BOOLEAN ELSE {FALSE})

Init == InitConfig /\ InitServer

(***************************************************************************)
(* Ingestion: /track to the end of its write, and the reads that see it.   *)
(***************************************************************************)
\* the /track requests sent so far (the limiter counts each, and no window
\* ends within the clock's steps)
sent(key) == limiter[key].hits
moreReqs == sent(<<"9">>) + sent(<<"8">>) < MaxReqs

Next ==
    \/ \E r \in TrackReqs : moreReqs /\ TrackFile(r)
    \/ \E i \in 1..MaxReqs, a \in GeoAnswers : GeoReply(i, a)
    \/ \E i \in 1..MaxReqs : AppendDone(i)
    \/ \E i \in 1..MaxReqs : AppendFail(i)
    \/ \E r \in TrackReqs, ok \in BOOLEAN : moreReqs /\ TrackSql(r, ok)
    \/ \E i \in 1..MaxReqs, salt \in Salts, ok \in BOOLEAN : HashDone(i, salt, ok)
    \/ LoginFile(1, ADMIN_PASS)
    \/ LoginSql(1, ADMIN_PASS)
    \/ \E q \in {EmptyStr, <<"a">>} : SearchFile(1, q, Absent, Absent)
    \/ \E q \in {EmptyStr, <<"a">>} : SearchSql(1, q, Absent, Absent)
    \/ (now < START + MaxTicks * TickMs /\ Tick(TickMs))

Spec == Init /\ [][Next]_vars

(***************************************************************************)
(* Claims about ingestion.                                                 *)
(***************************************************************************)
\* the ip fields the store holds or is being handed: rows of the table, lines
\* of the log, and the records of the appends under way
storedIps == {db[i].ip : i \in 1..Len(db)} \cup {logFile[i].v.ip : i \in 1..Len(logFile)} \cup {appends[i].v.ip : i \in 1..Len(appends)}

\* a bcrypt hash of one of the raw client addresses
isHashOfRaw(ip) == \E raw \in RawIps, salt \in Salts : ip = bcryptHash(raw, salt)

\* ip holds none of the raw client addresses
holdsNoRaw(ip) == \A raw \in RawIps : ~includes(ip, raw)

\* C2 as stated: with anonymization on, every stored ip and every published
\* ip equals the fixed placeholder.
C2_AllPlaceholder == ANONYMIZE => (\A ip \in storedIps : ip = ANON) /\ (emitted.any => emitted.visit.ip = ANON)

\* C2 as amended: with anonymization on, every stored ip is the fixed
\* placeholder (file variant) or a bcrypt hash of the client address
\* (sqlite variant), every published ip is the fixed placeholder, and the raw
\* client address is in neither.
C2_Anonymized == ANONYMIZE => (\A ip \in storedIps : (IF variant = "file" THEN ip = ANON ELSE isHashOfRaw(ip)) /\ holdsNoRaw(ip)) /\ (emitted.any => emitted.visit.ip = ANON)

\* a /track was ingested and published with anonymization on
C2_Witness == ANONYMIZE /\ emitted.any /\ storedIps # {}

\* C5: a query with the empty term lists a record appended later before a
\* record appended earlier (sqlite: a later insert has the larger id; file:
\* a later line is further down the log).
C5_NewestFirst ==
    /\ (variant = "sqlite" /\ resp.route = "search" /\ resp.status = 200 /\ resp.q = EmptyStr) => \A i, j \in 1..Len(resp.rows) : i < j => resp.rows[i].id > resp.rows[j].id
    /\ variant = "file" => readVisits(logFile, EmptyStr, Num(LIMIT_DEFAULT), 0) = reverse([i \in 1..Len(logFile) |-> logFile[i].v])

\* C6: a /track whose append failed was answered with a server error, not
\* with { ok: true }.
C6_FailureReported == lastErr.any => lastErr.status >= 500

\* the row or visit x is the record the last accepted /track stored
isLastTracked(x) == x.ip = lastTrack.visit.ip /\ x.ua = lastTrack.visit.ua /\ x.path = lastTrack.visit.path /\ x.referer = lastTrack.visit.referer /\ x.ts = lastTrack.visit.ts

\* C7: a search answered after a /track was answered { ok: true }, with a
\* term matching its record (the empty term matches), the default limit and
\* offset 0, has that record as its first row.
C7_SearchSeesAnswered == [][(lastTrack.any /\ resp' # resp /\ resp'.route = "search" /\ resp'.status = 200 /\ (resp'.q = EmptyStr \/ matchesTerm(lastTrack.visit, toLowerCase(resp'.q)))) => (resp'.rows # <<>> /\ isLastTracked(resp'.rows[1]))]_vars

(***************************************************************************)
(* Sessions, the protected routes and the realtime hub.                    *)
(***************************************************************************)
\* most /track requests the hub specification sends
MaxHubReqs == 1

InitHub ==
    /\ variant \in {"file", "sqlite"}
    /\ ANONYMIZE = FALSE
    /\ IPINFO_TOKEN = FALSE
    /\ InitServer

NextHub ==
    \/ \E sid \in SessionIds, pw \in Passwords : LoginFile(sid, pw)
    \/ \E sid \in SessionIds, pw \in Passwords : LoginSql(sid, pw)
    \/ \E sid \in SessionIds : Logout(sid)
    \/ \E sid \in SessionIds \cup {0} : SessionCheck(sid)
    \/ \E c \in Sockets, sid \in SessionIds \cup {0} : Connect(c, sid)
    \/ \E c \in Sockets : Disconnect(c)
    \/ \E c \in Sockets : JoinAdmin(c)
    \/ (sent(<<"9">>) < MaxHubReqs /\ TrackFile(ReqDirect))
    \/ AppendDone(1)
    \/ (sent(<<"9">>) < MaxHubReqs /\ TrackSql(ReqDirect, TRUE))
    \/ \E sid \in SessionIds \cup {0} : SearchFile(sid, EmptyStr, Absent, Absent)
    \/ \E sid \in SessionIds \cup {0} : Hits(sid)
    \/ \E sid \in SessionIds \cup {0} : SearchSql(sid, EmptyStr, Absent, Absent)
    \/ \E sid \in SessionIds \cup {0} : Export(sid)

SpecHub == InitHub /\ [][NextHub]_vars

\* C1: no connection is in the admins group that was unauthenticated when it
\* asked to join.
C1_NoUnauthedJoin == \A c \in admins : joinLog[c] # "unauthed"

\* C3: a request to /api/search, /api/hits or /api/export whose session is
\* not authenticated is answered 401 with no rows, whatever the store holds.
C3_AuthGate == (resp.route \in {"search", "hits", "export"} /\ ~resp.authed) => (resp.status = 401 /\ resp.rows = <<>>)

\* a protected route refused a request while the store held a record and
\* another session was logged in
C3_Witness == resp.route \in {"search", "hits", "export"} /\ ~resp.authed /\ resp.status = 401 /\ (logFile # <<>> \/ db # <<>>) /\ (\E s \in SessionIds : sessions[s])

(***************************************************************************)
(* The rate limit of /track.                                               *)
(***************************************************************************)
\* most /track requests the rate specification sends from the first key, and
\* from the second
MaxRateReqs == 124
MaxOtherReqs == 1

\* one request per key, told apart in the store by their paths
RateReqA == Req(EmptyStr, <<"9">>, EmptyStr, EmptyStr, EmptyStr, <<"/", "a">>, EmptyStr, EmptyStr)
RateReqB == Req(EmptyStr, <<"8">>, EmptyStr, EmptyStr, EmptyStr, <<"/", "b">>, EmptyStr, EmptyStr)

\* the requests sent so far from a key: the records of its path the store
\* holds or is being handed, and the rejections the limiter counted
recordsOf(path, ts) == Cardinality({i \in 1..Len(db) : db[i].path = path /\ db[i].ts = ts}) + Cardinality({i \in 1..Len(logFile) : logFile[i].v.path = path /\ logFile[i].v.ts = ts}) + Cardinality({i \in 1..Len(appends) : appends[i].v.path = path /\ appends[i].v.ts = ts})
recordsOfPath(path) == Cardinality({i \in 1..Len(db) : db[i].path = path}) + Cardinality({i \in 1..Len(logFile) : logFile[i].v.path = path}) + Cardinality({i \in 1..Len(appends) : appends[i].v.path = path})

\* the file variant anonymizes (no geo lookup), the sqlite variant does not
\* (no bcrypt): /track runs to its end in one step
InitRate ==
    /\ variant \in {"file", "sqlite"}
    /\ ANONYMIZE = (variant = "file")
    /\ IPINFO_TOKEN = FALSE
    /\ InitServer

\* the second key sends once the first has used up a window
otherMaySend == recordsOfPath(<<"/", "b">>) < MaxOtherReqs /\ recordsOfPath(<<"/", "a">>) >= RATE_MAX

\* the clock steps by one window; one fs.appendFile is in flight at a time
NextRate ==
    \/ (recordsOfPath(<<"/", "a">>) + MaxOver < MaxRateReqs /\ appends = <<>> /\ TrackFile(RateReqA))
    \/ (otherMaySend /\ appends = <<>> /\ TrackFile(RateReqB))
    \/ (recordsOfPath(<<"/", "a">>) + MaxOver < MaxRateReqs /\ TrackSql(RateReqA, TRUE))
    \/ (otherMaySend /\ TrackSql(RateReqB, TRUE))
    \/ \E r \in {RateReqA, RateReqB} : TrackReject(r)
    \/ AppendDone(1)
    \/ (now < START + windowMs /\ Tick(windowMs))

SpecRate == InitRate /\ [][NextRate]_vars

\* the path of the request of a limiter key
pathOfKey(key) == IF key = <<"9">> THEN <<"/", "a">> ELSE <<"/", "b">>

\* C4: in one window (the clock steps by whole windows, so a window is one
\* value of ts) at most 120 requests of a key are accepted; a request is
\* rejected (429) only when 120 of its key were accepted in the window; and
\* the rejected request adds nothing to the store and publishes nothing.
C4_RateLimit ==
    /\ [](\A path \in {<<"/", "a">>, <<"/", "b">>} : recordsOf(path, tsNow) <= RATE_MAX)
    /\ [][(resp'.route = "track" /\ resp'.status = 429 /\ limiter' # limiter) => (recordsOf(pathOfKey(resp'.q), tsNow) = RATE_MAX /\ UNCHANGED <<logFile, db, appends, inflight, emitted, lastTrack>>)]_vars
    /\ [][\A path \in {<<"/", "a">>, <<"/", "b">>} : (resp'.route = "track" /\ limiter' # limiter /\ path = pathOfKey(resp'.q) /\ recordsOf(path, tsNow) < RATE_MAX) => (resp'.status = 200 /\ recordsOf(path, tsNow)' = recordsOf(path, tsNow) + 1)]_vars

\* the 121st request of a key in a window was rejected, with the other key
\* served in the same window
C4_Witness == resp.route = "track" /\ resp.status = 429 /\ resp.q = <<"9">> /\ recordsOf(<<"/", "a">>, tsNow) = RATE_MAX /\ recordsOf(<<"/", "b">>, tsNow) = 1

\* a key is served again once its window has ended
C4_WitnessNextWindow == now = START + windowMs /\ recordsOf(<<"/", "a">>, START \div 1000) = RATE_MAX /\ recordsOf(<<"/", "a">>, tsNow) > 0

(***************************************************************************)
(* Queries on a fixed store.                                               *)
(***************************************************************************)
\* records of the store: a proxied visit with a mixed-case user agent, a
\* visit with a referer and a geo, an anonymized visit whose path holds '%'
QV1 == Visit(<<"7">>, <<"A", "b">>, <<"/", "a">>, EmptyStr, 1, NoGeo)
QV2 == Visit(<<"9">>, EmptyStr, <<"/", "b">>, <<"b">>, 1, GeoOf(<<"a">>, EmptyStr, <<"B">>))
QV3 == Visit(ANON, <<"a">>, <<"/", "%">>, EmptyStr, 2, NoGeo)
QueryVisits == {QV1, QV2, QV3}

\* what a line of the log may be: each record whole, a record cut short by
\* an append that did not finish, a record whole but for its line feed
QueryChunks == {<<QV1, "full">>, <<QV2, "full">>, <<QV3, "full">>, <<QV1, "part">>, <<QV2, "nonl">>}

\* the row the sqlite variant stores for a visit (it has no geo column)
rowOf(v, id) == Row(id, v.ip, OrNull(v.ua), OrNull(v.path), OrNull(v.referer), v.ts)

\* the terms, limits and offsets asked for
Terms == {EmptyStr, <<"a">>, <<"A">>, <<"A", "B">>, <<"b">>, <<"/", "b">>, <<"/", "a">>, <<" ">>, <<"7", " ", "/">>, <<"%">>, <<"_">>}
LimitParams == {Absent, IntParam(1), IntParam(2), IntParam(0), IntParam(-1), IntParam(3000), TextParam}
OffsetParams == {Absent, IntParam(1), IntParam(2), IntParam(-1), TextParam}

\* the store holds up to MaxLines lines or rows; session 1 has logged in
InitQuery ==
    /\ variant \in {"file", "sqlite"}
    /\ ANONYMIZE = FALSE
    /\ IPINFO_TOKEN = FALSE
    /\ now = START
    /\ sessions = [s \in SessionIds |-> s = 1]
    /\ conn = [c \in Sockets |-> -1]
    /\ admins = {}
    /\ joinLog = [c \in Sockets |-> "none"]
    /\ \E n \in 0..MaxLines : \E f \in [1..n -> (IF variant = "file" THEN QueryChunks ELSE {<<v, "full">> : v \in QueryVisits})] :
          /\ logFile = IF variant = "file" THEN [i \in 1..n |-> Chunk(f[i][1], f[i][2], i)] ELSE <<>>
          /\ db = IF variant = "sqlite" THEN [i \in 1..n |-> rowOf(f[i][1], i)] ELSE <<>>
    /\ appends = <<>>
    /\ inflight = <<>>
    /\ GEO_CACHE = <<>>
    /\ limiter = [k \in LimiterKeys |-> [hits |-> 0, reset |-> 0]]
    /\ resp = NoResp
    /\ emitted = NoEmit
    /\ lastTrack = NoTrack
    /\ lastErr = NoTrack
    /\ rowsEl = <<>>

\* one request is put to each store
NextQuery ==
    \/ \E q \in Terms, l \in LimitParams, o \in OffsetParams : resp = NoResp /\ SearchFile(1, q, l, o)
    \/ \E q \in Terms, l \in LimitParams, o \in OffsetParams : resp = NoResp /\ SearchSql(1, q, l, o)
    \/ (resp = NoResp /\ Hits(1))
    \/ (resp = NoResp /\ Export(1))

SpecQuery == InitQuery /\ [][NextQuery]_vars

(***************************************************************************)
(* Claims about queries.                                                   *)
(***************************************************************************)
\* the chunk at position i is a valid line of the log: a whole JSON text,
\* right after a line feed (or first in the file) and ended by a line feed
\* (or last in the file)
validLineAt(i) == logFile[i].cut \in {"full", "nonl"} /\ (i = 1 \/ logFile[i - 1].cut = "full") /\ (logFile[i].cut = "full" \/ i = Len(logFile))

\* the records of the valid lines from position i on, oldest first
RECURSIVE validRecordsFrom(_)
validRecordsFrom(i) == IF i > Len(logFile) THEN <<>> ELSE (IF validLineAt(i) THEN <<logFile[i].v>> ELSE <<>>) \o validRecordsFrom(i + 1)

\* C8: on a log with unparseable lines, a query with the empty term (the
\* default limit, or /api/hits) is answered 200 with exactly the records of
\* the valid lines, newest first.
C8_SkipsUnparseable == (variant = "file" /\ resp.route \in {"search", "hits"} /\ resp.authed /\ resp.q = EmptyStr /\ resp.limit = Absent /\ resp.offset = Absent) => (resp.status = 200 /\ resp.rows = reverse(validRecordsFrom(1)))

\* a query was answered from a log whose last line is cut short
C8_Witness == variant = "file" /\ resp.route = "search" /\ resp.q = EmptyStr /\ resp.limit = Absent /\ resp.offset = Absent /\ Len(logFile) = 2 /\ logFile[1].cut = "full" /\ logFile[2].cut = "part" /\ Len(resp.rows) = 1

\* the elements of a sequence
Range(seq) == {seq[i] : i \in 1..Len(seq)}

\* the results the store may give for a term, a limit and an offset
queryResults(q, limitP, offsetP) == IF variant = "file" THEN {readVisits(logFile, q, limitOf(limitP), offsetOf(offsetP))} ELSE searchSqlResults(q, limitOf(limitP), offsetOf(offsetP))

\* the numbers of rows the store may give (one number: the order of the
\* rows is open in the sqlite variant, their number is not)
queryCounts(q, limitP, offsetP) == {Len(rows) : rows \in queryResults(q, limitP, offsetP)}

\* every record of the store, as the query with the empty term gives them
\* when nothing is cut off
allRecords == IF variant = "file" THEN Range(readVisits(logFile, EmptyStr, Num(Len(logFile)), 0)) ELSE Range(db)

\* the search answered has at most as many rows as one for the shorter term
\* t, and at least as many as one for the longer term t (same limit, offset)
countMonotone == \A t \in Terms : /\ includes(resp.q, t) => \A c \in queryCounts(t, resp.limit, resp.offset) : Len(resp.rows) <= c
                                  /\ includes(t, resp.q) => \A c \in queryCounts(t, resp.limit, resp.offset) : c <= Len(resp.rows)

\* C9 as stated: the rows for a term are among the rows for the empty term
\* under the same limit and offset, and lengthening the term never adds rows.
C9_SubsetSameLimit == (resp.route = "search" /\ resp.status = 200) => ((\E all \in queryResults(EmptyStr, resp.limit, resp.offset) : Range(resp.rows) \subseteq Range(all)) /\ countMonotone)

\* C9 as amended: the rows for a term are among the rows the empty term
\* gives when nothing is cut off (a limit of at least the number of records,
\* offset 0); and with the same limit and an offset >= 0, lengthening the
\* term never adds rows.
C9_SubsetOfAll == (resp.route = "search" /\ resp.status = 200) => (Range(resp.rows) \subseteq allRecords /\ (offsetOf(resp.offset) >= 0 => countMonotone))

\* a term was searched that keeps some records and drops others
C9_Witness == resp.route = "search" /\ resp.status = 200 /\ resp.q = <<"/", "a">> /\ resp.limit = Absent /\ resp.offset = Absent /\ Len(resp.rows) = 1 /\ Cardinality(allRecords) = 2

\* the text the claim tests a term against: the fields and, when present,
\* the geo fields (a missing field is the empty string; rows have no geo)
claimBlob(r) == toLowerCase(joinSp(<<r.ip, IF r.path = NullCol THEN EmptyStr ELSE r.path, IF r.ua = NullCol THEN EmptyStr ELSE r.ua, IF r.referer = NullCol THEN EmptyStr ELSE r.referer>> \o (IF "geo" \in DOMAIN r /\ r.geo.present THEN <<r.geo.city, r.geo.region, r.geo.country>> ELSE <<EmptyStr, EmptyStr, EmptyStr>>)))

\* C10: the records a search selects (default limit, offset 0) are exactly
\* those whose text holds the term as a literal substring, without case.
C10_LiteralSubstring == (resp.route = "search" /\ resp.status = 200 /\ resp.limit = Absent /\ resp.offset = Absent) => Range(resp.rows) = {r \in allRecords : includes(claimBlob(r), toLowerCase(resp.q))}

(***************************************************************************)
(* The cap on the size of a search response: searches on a log that holds  *)
(* about LIMIT_CAP records.                                                *)
(***************************************************************************)
\* how many records past LIMIT_CAP the log may hold
MaxBeyond == 2

\* the numbers of lines of the log: a few, and LIMIT_CAP and a few more
CapSizes == (0..MaxBeyond) \cup (LIMIT_CAP..(LIMIT_CAP + MaxBeyond))

\* values of the limit parameter around the cap
CapLimitParams == LimitParams \cup {IntParam(LIMIT_CAP), IntParam(LIMIT_CAP + 1)}

\* the log holds n whole lines (the same visit, sent again and again);
\* session 1 has logged in
InitCap ==
    /\ variant = "file"
    /\ ANONYMIZE = FALSE
    /\ IPINFO_TOKEN = FALSE
    /\ now = START
    /\ sessions = [s \in SessionIds |-> s = 1]
    /\ conn = [c \in Sockets |-> -1]
    /\ admins = {}
    /\ joinLog = [c \in Sockets |-> "none"]
    /\ \E n \in CapSizes : logFile = [i \in 1..n |-> stringifyLine(QV1, i)]
    /\ db = <<>>
    /\ appends = <<>>
    /\ inflight = <<>>
    /\ GEO_CACHE = <<>>
    /\ limiter = [k \in LimiterKeys |-> [hits |-> 0, reset |-> 0]]
    /\ resp = NoResp
    /\ emitted = NoEmit
    /\ lastTrack = NoTrack
    /\ lastErr = NoTrack
    /\ rowsEl = <<>>

\* one search is put to each log
NextCap ==
    \/ \E l \in CapLimitParams, o \in OffsetParams : resp = NoResp /\ SearchFile(1, EmptyStr, l, o)
    \/ (resp = NoResp /\ Hits(1))

SpecCap == InitCap /\ [][NextCap]_vars

\* C11: an authenticated search answers at most LIMIT_CAP rows whatever the
\* limit parameter is, and at most limit rows when the parameter is an
\* integer from 0 to LIMIT_CAP.
C11_LimitCap == (resp.route = "search" /\ resp.status = 200) => (Len(resp.rows) <= LIMIT_CAP /\ ((resp.limit.kind = "int" /\ resp.limit.n \in 0..LIMIT_CAP) => Len(resp.rows) <= resp.limit.n))

(***************************************************************************)
(* Claims about the write path.                                            *)
(***************************************************************************)
\* the records handed to the store so far
handedOver == {logFile[i].v : i \in 1..Len(logFile)} \cup {appends[i].v : i \in 1..Len(appends)}

\* every operation on a store that fills up: /track and its append, the
\* read routes, and the session and hub operations of one browser
MaxStoreReqs == 2

NextStore ==
    \/ \E r \in TrackReqs : sent(<<"9">>) < MaxStoreReqs /\ TrackFile(r)
    \/ \E i \in 1..MaxStoreReqs : AppendDone(i)
    \/ \E i \in 1..MaxStoreReqs : AppendFail(i)
    \/ \E r \in TrackReqs, ok \in BOOLEAN : sent(<<"9">>) < MaxStoreReqs /\ TrackSql(r, ok)
    \/ LoginFile(1, ADMIN_PASS)
    \/ LoginSql(1, ADMIN_PASS)
    \/ Logout(1)
    \/ SessionCheck(1)
    \/ Connect(1, 1)
    \/ JoinAdmin(1)
    \/ Disconnect(1)
    \/ SearchFile(1, EmptyStr, Absent, Absent)
    \/ Hits(1)
    \/ SearchSql(1, EmptyStr, Absent, Absent)
    \/ Export(1)

SpecStore == InitHub /\ [][NextStore]_vars

\* s is the beginning of t
isPrefix(s, t) == Len(s) <= Len(t) /\ SubSeq(t, 1, Len(s)) = s

\* the row the sqlite variant stores for the last /track answered
rowOfLastTrack(lt, id) == Row(id, lt.visit.ip, lt.visit.ua, lt.visit.path, lt.visit.referer, lt.visit.ts)

\* C13: every step leaves the records of the store where they are and as
\* they are; a record is added only for a /track (file variant: when the
\* append that /track started completes; sqlite variant: in the handler), one
\* at a time and at the end; login, logout, session check, search, hits,
\* export, connect, join-admin and disconnect leave the store unchanged.
C13_AppendOnly == [][/\ isPrefix(logFile, logFile') /\ isPrefix(db, db')
                     /\ logFile' # logFile => \E i \in 1..Len(appends) : logFile' = Append(logFile, stringifyLine(appends[i].v, appends[i].n)) /\ appends' = removeAt(appends, i)
                     /\ db' # db => (resp'.route = "track" /\ resp'.status = 200 /\ lastTrack'.n = lastTrack.n + 1 /\ db' = Append(db, rowOfLastTrack(lastTrack', Len(db) + 1)))
                     /\ ((resp' # resp /\ resp'.route # "track") \/ sessions' # sessions \/ conn' # conn \/ admins' # admins \/ joinLog' # joinLog) => (logFile' = logFile /\ db' = db)]_vars

\* the store holds two records, and since then a session logged in, a
\* connection joined the admin room and a read route was answered
C13_Witness == (Len(logFile) = 2 \/ Len(db) = 2) /\ admins # {} /\ (\E s \in SessionIds : sessions[s]) /\ resp.route \in {"search", "hits", "export"} /\ resp.status = 200 /\ Len(resp.rows) = 2
\* C14: the visit last published is in the store, with the same ip, ua,
\* path, referer, ts and geo: it was published after its append completed.
C14_PublishedIsStored == emitted.any => IF variant = "file" THEN \E i \in 1..Len(logFile) : logFile[i].n = emitted.n /\ logFile[i].v = emitted.visit ELSE \E i \in 1..Len(db) : db[i] = Row(db[i].id, emitted.visit.ip, emitted.visit.ua, emitted.visit.path, emitted.visit.referer, emitted.visit.ts)
(***************************************************************************)
(* Claims about who receives the events.                                   *)
(***************************************************************************)
\* C15: whenever a visit is published, every connection it is delivered to
\* belongs to a session that is authenticated at that moment.
C15_OnlyAuthedReceive == [][emitted' # emitted => \A c \in emitted'.to : conn[c] \in SessionIds /\ sessions[conn[c]]]_vars
(***************************************************************************)
(* Claims about the order of the log.                                      *)
(***************************************************************************)
\* C16: every line of the log is one whole record, and the lines are in the
\* order in which writeVisit was called for them.
C16_AppendsInIssueOrder == variant = "file" => (\A i \in 1..Len(logFile) : logFile[i].cut = "full") /\ (\A i, j \in 1..Len(logFile) : i < j => logFile[i].n < logFile[j].n)
\* C17: in the store, a record appended earlier has a timestamp that is at
\* most the timestamp of a record appended later.
C17_TimestampsNonDecreasing == (\A i, j \in 1..Len(logFile) : i < j => logFile[i].v.ts <= logFile[j].v.ts) /\ (\A i, j \in 1..Len(db) : i < j => db[i].ts <= db[j].ts)
(***************************************************************************)
(* Progress of /track.  What the server itself schedules happens: the      *)
(* callback of a started fs.appendFile runs, bcrypt.hash resolves, and the *)
(* clock goes on.  When, and whether, ipinfo.io answers a fetch is not the *)
(* server's to decide: the handler sets no timer and passes no signal to   *)
(* fetch, so nothing of its own ends the await.                            *)
(***************************************************************************)
SpecLive == Spec /\ WF_vars(\E i \in 1..MaxReqs : AppendDone(i) \/ AppendFail(i)) /\ WF_vars(\E i \in 1..MaxReqs, salt \in Salts, ok \in BOOLEAN : HashDone(i, salt, ok)) /\ WF_vars(now < START + MaxTicks * TickMs /\ Tick(TickMs))

\* C18: a /track that passed the limiter and is suspended is answered in the
\* end.
C18_TrackAnswered == \A k \in 1..MaxReqs : (Len(inflight) >= k) ~> (Len(inflight) < k)
(***************************************************************************)
(* The geo lookup: /track requests from loopback, private and public       *)
(* addresses, in plain and IPv4-mapped form, over a clock that runs past   *)
(* the cache's TTL.                                                        *)
(***************************************************************************)
MaxGeoReqs == 2
MaxGeoTicks == 2

\* x-forwarded-for values: a public address plain and mapped, loopback
\* addresses, a private one
PublicIp == <<"7">>
LoopbackIps == {<<"::ffff:", "127.0.0.1">>, <<"::1">>}
PrivateIps == {<<"10.0.0.5">>}
GeoIps == {PublicIp, <<"::ffff:">> \o PublicIp} \cup LoopbackIps \cup PrivateIps
GeoReqs == {Req(x, <<"9">>, <<"a">>, EmptyStr, EmptyStr, <<"/">>, EmptyStr, EmptyStr) : x \in GeoIps}

\* the steps of the clock: to the last millisecond before the TTL, and one
\* millisecond; the times it shows
GeoTicks == {GEO_TTL - 1, 1}
GeoTimes == {START + a * (GEO_TTL - 1) + b : a \in 0..(MaxGeoTicks - 1), b \in 0..(MaxGeoTicks - 1)}

\* the /track requests the handler has taken up
taken == lastTrack.n + Len(inflight)

InitGeo ==
    /\ variant = "file"
    /\ ANONYMIZE \in BOOLEAN
    /\ IPINFO_TOKEN \in BOOLEAN
    /\ InitServer

NextGeo ==
    \/ \E r \in GeoReqs : taken < MaxGeoReqs /\ TrackFile(r)
    \/ \E i \in 1..MaxGeoReqs, a \in GeoAnswers : GeoReply(i, a)
    \/ \E d \in GeoTicks : now + d \in GeoTimes /\ Tick(d)

SpecGeo == InitGeo /\ [][NextGeo]_vars

\* the visit the i-th suspended /track builds when its lookup gives geo
visitOfInflight(i, geo) == Visit(inflight[i].ip, inflight[i].ua, inflight[i].path, inflight[i].referer, inflight[i].ts, geo)

\* C12: when the lookup of a suspended /track fails (a network error, a
\* non-success status, a body that is no JSON), the handler goes on: it hands
\* the record with geo absent to the store, publishes that record and
\* answers 200; nothing is raised.
C12_GeoFailureIngests == [][\A i \in 1..Len(inflight), a \in GeoFailures : GeoReply(i, a) => (/\ Len(appends') = Len(appends) + 1
                                                                                                                /\ appends'[Len(appends')].v = visitOfInflight(i, NoGeo)
                                                                                                                /\ emitted'.any /\ emitted'.visit = visitOfInflight(i, NoGeo)
                                                                                                                /\ resp' = TrackResp(inflight[i].key, 200)
                                                                                                                /\ GEO_CACHE' = GEO_CACHE)]_vars

\* a /track from a public address whose lookup failed was answered: with a
\* token, no anonymization and an empty cache such a request looks up, so
\* its record without geo comes from a failed lookup
C12_Witness == variant = "file" /\ IPINFO_TOKEN /\ ~ANONYMIZE /\ GEO_CACHE = <<>> /\ lastTrack.any /\ lastTrack.visit.ip = PublicIp /\ ~lastTrack.visit.geo.present /\ emitted.visit = lastTrack.visit /\ resp.route = "track" /\ resp.status = 200 /\ lastTrack.visit \in handedOver

\* C19: a lookup is started only with anonymization off and for an address
\* that is neither loopback nor private; the record of a request from a
\* loopback or private address, or under anonymization, has no geo.
C19_NoLookupForLocal == /\ [][Len(inflight') > Len(inflight) => (~ANONYMIZE /\ inflight'[Len(inflight')].ipRaw \notin LoopbackIps \cup PrivateIps)]_vars
                        /\ [](\A v \in handedOver : (ANONYMIZE \/ v.ip \in LoopbackIps \cup PrivateIps) => ~v.geo.present)
\* the address of the /track taken up in this step, as the cache knows it
takenKey == stripMapped(IF Len(inflight') > Len(inflight) THEN inflight'[Len(inflight')].ipRaw ELSE lastTrack'.visit.ip)

\* the age of the cache entry of address k
ageOf(k) == now - GEO_CACHE[k].ts

\* C20: a /track for an address whose cache entry is younger than GEO_TTL
\* is given that entry's data and starts no lookup; when the entry's age has
\* reached GEO_TTL it is not given the entry and starts exactly one lookup;
\* a lookup that succeeds puts its result, stamped now, in the place of the
\* entry; entries are kept under the plain form of the address, so the
\* IPv4-mapped and the plain form share one.
C20_GeoCache == /\ [][(taken' = taken + 1 /\ ~ANONYMIZE /\ IPINFO_TOKEN /\ takenKey \in DOMAIN GEO_CACHE) => IF ageOf(takenKey) < GEO_TTL THEN inflight' = inflight /\ lastTrack'.n = lastTrack.n + 1 /\ lastTrack'.visit.geo = GEO_CACHE[takenKey].data /\ GEO_CACHE' = GEO_CACHE ELSE Len(inflight') = Len(inflight) + 1 /\ lastTrack' = lastTrack /\ GEO_CACHE' = GEO_CACHE]_vars
                /\ [][(Len(inflight') < Len(inflight) /\ lastTrack'.visit.geo.present) => (DOMAIN GEO_CACHE' = DOMAIN GEO_CACHE \cup {stripMapped(lastTrack'.visit.ip)} /\ \A k \in DOMAIN GEO_CACHE' : GEO_CACHE'[k] = IF k = stripMapped(lastTrack'.visit.ip) THEN [data |-> lastTrack'.visit.geo, ts |-> now] ELSE GEO_CACHE[k])]_vars
                /\ [](\A k \in DOMAIN GEO_CACHE : stripMapped(k) = k)

\* a /track from the IPv4-mapped form of an address was given the data of
\* the entry a lookup for the plain form had made, one millisecond before
\* the entry's age reached the TTL
C20_Witness == lastTrack.any /\ lastTrack.visit.ip = <<"::ffff:">> \o PublicIp /\ PublicIp \in DOMAIN GEO_CACHE /\ ageOf(PublicIp) = GEO_TTL - 1 /\ lastTrack.visit.geo = GEO_CACHE[PublicIp].data /\ lastTrack.visit.ts = tsNow /\ lastTrack.n = 2 /\ inflight = <<>>
(***************************************************************************)
(* Claims about pagination.                                                *)
(***************************************************************************)
\* the rows at positions offset .. offset + L - 1 of a sequence (the first
\* position is 0)
pageOf(seq, L, offset) == SubSeq(seq, offset + 1, Min(offset + L, Len(seq)))

\* the records of the log that hold the term, newest first
filteredNewestFirst(q) == LET all == reverse(validRecordsFrom(1)) IN filterSeq(all, {v \in Range(all) : includes(claimBlob(v), toLowerCase(q))})

\* the pages readVisits gives at offsets off, off + L, off + 2L, ... put
\* one after the other, up to the page that comes back empty
RECURSIVE pagesFrom(_, _, _)
pagesFrom(q, L, off) == LET page == readVisits(logFile, q, Num(L), off) IN IF page = <<>> THEN <<>> ELSE page \o pagesFrom(q, L, off + L)

\* C21: for a limit L in 1..LIMIT_CAP and an offset >= 0, a search returns
\* the rows at positions offset .. offset + L - 1 of the filtered sequence:
\* in the file variant the records of the log that hold the term, newest
\* first, and the pages at offsets 0, L, 2L, ... put together are that
\* sequence; in the sqlite variant the rows the WHERE clause keeps, listed
\* by ts descending.
C21_OffsetAfterFilter == (resp.route = "search" /\ resp.status = 200 /\ ~limitOf(resp.limit).nan /\ limitOf(resp.limit).n \in 1..LIMIT_CAP /\ offsetOf(resp.offset) >= 0) => IF variant = "file" THEN resp.rows = pageOf(filteredNewestFirst(resp.q), limitOf(resp.limit).n, offsetOf(resp.offset)) /\ pagesFrom(resp.q, limitOf(resp.limit).n, 0) = filteredNewestFirst(resp.q) ELSE \E o \in orderByTsDesc(sqlWhere(db, resp.q)) : resp.rows = pageOf(o, limitOf(resp.limit).n, offsetOf(resp.offset))

\* the second page of one row was answered for a term two records hold
C21_Witness == resp.route = "search" /\ resp.status = 200 /\ resp.q = <<"b">> /\ resp.limit = IntParam(1) /\ resp.offset = IntParam(1) /\ Len(resp.rows) = 1 /\ (Len(logFile) = 2 \/ Len(db) = 2)
(***************************************************************************)
(* Claims about sessions.                                                  *)
(***************************************************************************)
\* the session routes and the realtime connections of the browsers, with
\* right and wrong passwords
NextSession ==
    \/ \E sid \in SessionIds, pw \in Passwords : LoginFile(sid, pw)
    \/ \E sid \in SessionIds, pw \in Passwords : LoginSql(sid, pw)
    \/ \E sid \in SessionIds : Logout(sid)
    \/ \E sid \in SessionIds \cup {0} : SessionCheck(sid)
    \/ \E c \in Sockets, sid \in SessionIds \cup {0} : Connect(c, sid)
    \/ \E c \in Sockets : Disconnect(c)
    \/ \E c \in Sockets : JoinAdmin(c)

SpecSession == InitHub /\ [][NextSession]_vars

trOf(v) == [time |-> IF v.ts # 0 THEN v.ts ELSE tsNow, ip |-> v.ip, path |-> v.path, ua |-> v.ua]

\* rowsEl.prepend(tr)
prepend(table, tr) == <<tr>> \o table

\* addRow(v), on a table
addRow(table, v) == prepend(table, trOf(v))

\* rowsEl.innerHTML = ''; rows.forEach(addRow): the rows are added one after
\* the other, first row of the answer first
RECURSIVE forEachAddRow(_, _)
forEachAddRow(table, rows) == IF rows = <<>> THEN table ELSE forEachAddRow(addRow(table, Head(rows)), Tail(rows))

\* fetchRows(query), the request: GET /api/search?q=query&limit=200 with the
\* cookie of the browser's session
FetchRows(sid, query) ==
    \/ SearchFile(sid, query, IntParam(LIMIT_DEFAULT), Absent)
    \/ SearchSql(sid, query, IntParam(LIMIT_DEFAULT), Absent)

\* fetchRows(query), after the await: an answer that is not ok throws and
\* leaves the table; an ok answer clears the table and adds the rows.  The
\* answer is consumed.
RenderRows ==
    /\ resp.route = "search"
    /\ rowsEl' = IF resp.status = 200 THEN forEachAddRow(<<>>, resp.rows) ELSE rowsEl
    /\ resp' = NoResp
    /\ UNCHANGED <<variant, ANONYMIZE, IPINFO_TOKEN, now, sessions, conn, admins, joinLog, logFile, db, appends, inflight, GEO_CACHE, limiter, emitted, lastTrack, lastErr>>

\* socket.on('visit', (v) => addRow(v)) on connection c: the event reaches
\* the console, which is no longer among those still to receive it
OnVisit(c) ==
    /\ emitted.any
    /\ c \in emitted.to
    /\ rowsEl' = addRow(rowsEl, emitted.visit)
    /\ emitted' = [emitted EXCEPT !.to = emitted.to \ {c}]
    /\ UNCHANGED <<variant, ANONYMIZE, IPINFO_TOKEN, now, sessions, conn, admins, joinLog, logFile, db, appends, inflight, GEO_CACHE, limiter, resp, lastTrack, lastErr>>

\* one browser with the console open: it logs in, connects and joins, loads
\* and searches the table, and receives the live events, while visits are
\* tracked and time passes.  A visit is tracked once the console has handled
\* the answer and the event before it.
MaxConsoleReqs == 2
MaxConsoleTicks == 2

idle == resp.route # "search" /\ emitted.to = {}

NextConsole ==
    \/ LoginFile(1, ADMIN_PASS)
    \/ LoginSql(1, ADMIN_PASS)
    \/ Connect(1, 1)
    \/ JoinAdmin(1)
    \/ (idle /\ sent(<<"9">>) < MaxConsoleReqs /\ TrackFile(ReqDirect))
    \/ AppendDone(1)
    \/ (idle /\ sent(<<"9">>) < MaxConsoleReqs /\ TrackSql(ReqDirect, TRUE))
    \/ (now < START + MaxConsoleTicks * TickMs /\ Tick(TickMs))
    \/ \E q \in {EmptyStr, <<"b">>} : resp.route # "search" /\ FetchRows(1, q)
    \/ RenderRows
    \/ OnVisit(1)

SpecConsole == InitHub /\ [][NextConsole]_vars

\* C23: the table of the console is most-recent-first at all times: every
\* row is above every row of an older visit, after fetchRows has rendered
\* an answer and after live 'visit' events were added.
C23_TableNewestFirst == \A i, j \in 1..Len(rowsEl) : i < j => rowsEl[i].time >= rowsEl[j].time

====
